---- MODULE Spec2Model ----
(***************************************************************************)
(* A model of noodles-fpkm: the interval merger (features.rs), the counts  *)
(* reader (counts.rs) and the FPKM / TPM calculators (lib.rs).             *)
(*                                                                         *)
(* Three specifications share the variables: SpecMerge runs                *)
(* merge_intervals and sum_nonoverlapping_interval_lengths on every        *)
(* bounded interval list, SpecRead runs read_counts on every bounded       *)
(* counts table, SpecCalc runs calculate_fpkms and calculate_tpms on       *)
(* every pair of bounded maps. A HashMap is a function on its key set and  *)
(* its iterator yields the keys in any order; a u64 stays far below 2^53,  *)
(* so no sum overflows and every `as f64` is exact.                        *)
(***************************************************************************)
EXTENDS Integers, Sequences, FiniteSets, TLC

\* ------------------------------------------------------------------ bounds
\* Longest interval list handed to merge_intervals.
MaxLen == 3
\* Largest genomic position of an interval handed to merge_intervals.
MaxPos == 4
\* Largest read count of a feature.
MaxCount == 2
\* Longest counts table handed to read_counts, in records.
MaxRecords == 3

\* --------------------------------------------------------- program constants
\* counts.rs: the columns of a counts record.
NAME_INDEX == 0
COUNT_INDEX == 1
\* counts.rs: HTSEQ_COUNT_META_PREFIX, "__".
HTSEQ_COUNT_META_PREFIX == <<95, 95>>

\* ---------------------------------------------------------------- variables
VARIABLES
    m_pc,               \* position inside merge_intervals
    m_input,            \* the `intervals` argument of merge_intervals
    m_sorted,           \* the sorted working copy (`intervals` after line 49)
    m_i,                \* number of elements of m_sorted the for loop has consumed
    merged_intervals,   \* the growing result vector
    m_len,              \* what sum_nonoverlapping_interval_lengths returns
    counts,             \* the Counts map (HashMap<String, u64>) handed to a calculator
    features,           \* the Features map (HashMap<String, Vec<Feature>>)
    c_fn,               \* the calculator called: "fpkms" or "tpms"
    c_pc,               \* position inside calculate_fpkms / calculate_tpms
    counts_sum,         \* calculate_fpkms: the local counts_sum
    c_todo,             \* keys the running map iterator has not yielded yet
    c_acc,              \* the BTreeMap being collected
    c_order,            \* the keys collected into c_acc, in the order the iterator yielded them
    cpbs,               \* calculate_tpms: the HashMap of counts per base
    cpbs_order,         \* the order the cpbs HashMap yields its entries in
    cpbs_sum,           \* calculate_tpms: the local cpbs_sum
    c_result,           \* the returned Result<Expressions, Error>
    r_pc,               \* position inside read_counts
    r_records,          \* the records the csv reader yields, in input order
    r_pos,              \* number of records the for loop has taken from the reader
    r_counts,           \* read_counts: the local `counts` map
    r_parsed,           \* the records (by index) parse_count was called on
    r_result,           \* the returned io::Result<Counts>
    x_pc,               \* position inside main
    x_argv,             \* the command line: each option's value, or "omitted"
    x_matches,          \* main: `matches`, the values clap holds by argument name
    x_logger,           \* the filter env_logger was initialised with
    x_called,           \* the calculator main has called
    x_output            \* the expressions write_expressions has written to stdout

mergeVars == <<m_pc, m_input, m_sorted, m_i, merged_intervals, m_len>>

calcVars == <<counts, features, c_fn, c_pc, counts_sum, c_todo, c_acc, c_order, cpbs, cpbs_order, cpbs_sum, c_result>>

readVars == <<r_pc, r_records, r_pos, r_counts, r_parsed, r_result>>

mainVars == <<x_pc, x_argv, x_matches, x_logger, x_called, x_output>>

vars == <<mergeVars, calcVars, readVars, mainVars>>

\* ---------------------------------------------------------------- features.rs
\* Feature::new
Feature(s, e) == [start |-> s, end |-> e]

\* Feature::len
FeatureLenNoPlusOne(f) == f.end - f.start
FeatureLen(f) == f.end - f.start + 1

\* Every Feature with 1 <= start <= end <= hi (1-based, inclusive).
FeaturesUpTo(hi) == {f \in [start : 1..hi, end : 1..hi] : f.start <= f.end}

\* The non-empty interval lists of at most n elements over the set F.
IntervalLists(F, n) == UNION {[1..k -> F] : k \in 1..n}

\* The permutations of 1..n.
Perms(n) == {p \in [1..n -> 1..n] : \A i, j \in 1..n : p[i] = p[j] => i = j}

\* sort_unstable_by_key(|i| i.start): the results the sort may produce; the
\* order of elements with equal keys is not specified.
SortedByStartUnsorted(X) == {X}
SortedByStart(X) ==
    {[i \in 1..Len(X) |-> X[p[i]]] : p \in
        {q \in Perms(Len(X)) : \A i \in 1..(Len(X) - 1) : X[q[i]].start <= X[q[i + 1]].start}}

\* One iteration of the for loop of merge_intervals (lines 54-65) on the
\* result vector `out` and the next sorted element b.
SweepStepAlwaysAssign(out, b) ==
    LET a == out[Len(out)]
    IN  IF b.start > a.end
        THEN Append(out, b)
        ELSE [out EXCEPT ![Len(out)].end = b.end]
SweepStepNoMerge(out, b) == Append(out, b)
SweepStepPushOnTouch(out, b) ==
    LET a == out[Len(out)]
    IN  IF b.start >= a.end
        THEN Append(out, b)
        ELSE IF a.end < b.end
             THEN [out EXCEPT ![Len(out)].end = b.end]
             ELSE out
SweepStep(out, b) ==
    LET a == out[Len(out)]
    IN  IF b.start > a.end
        THEN Append(out, b)
        ELSE IF a.end < b.end
             THEN [out EXCEPT ![Len(out)].end = b.end]
             ELSE out

\* The whole loop from element i of the sorted list on.
RECURSIVE Sweep(_, _, _)
Sweep(out, sorted, i) ==
    IF i > Len(sorted) THEN out ELSE Sweep(SweepStep(out, sorted[i]), sorted, i + 1)

\* merge_intervals as a function of its argument (the result does not depend
\* on the order the sort leaves equal keys in, see MergeIsFunction).
merge_intervals(X) ==
    LET sorted == CHOOSE s \in SortedByStart(X) : TRUE
    IN  Sweep(<<sorted[1]>>, sorted, 1)

\* sum_nonoverlapping_interval_lengths (lib.rs), as a function of its argument.
RECURSIVE SumLens(_)
SumLens(X) == IF Len(X) = 0 THEN 0 ELSE FeatureLen(X[1]) + SumLens(Tail(X))

sum_nonoverlapping_interval_lengths(X) == SumLens(merge_intervals(X))

\* merge_intervals, lines 46-52: the assertion (a panic on an empty list), the
\* sorted copy, the push of the first element.
MergeStart ==
    /\ m_pc = "start"
    /\ \/ /\ Len(m_input) = 0
          /\ m_pc' = "panic"
          /\ UNCHANGED <<m_sorted, merged_intervals>>
       \/ /\ Len(m_input) > 0
          /\ \E s \in SortedByStart(m_input) :
              /\ m_sorted' = s
              /\ merged_intervals' = <<s[1]>>
          /\ m_pc' = "loop"
    /\ m_i' = 0
    /\ UNCHANGED <<m_input, m_len, calcVars, readVars, mainVars>>

\* merge_intervals, lines 54-65: one iteration of the for loop.
MergeStep ==
    /\ m_pc = "loop"
    /\ m_i < Len(m_sorted)
    /\ merged_intervals' = SweepStep(merged_intervals, m_sorted[m_i + 1])
    /\ m_i' = m_i + 1
    /\ UNCHANGED <<m_pc, m_input, m_sorted, m_len, calcVars, readVars, mainVars>>

\* merge_intervals, line 67: the loop is over, the vector is returned.
MergeReturn ==
    /\ m_pc = "loop"
    /\ m_i = Len(m_sorted)
    /\ m_pc' = "done"
    /\ UNCHANGED <<m_input, m_sorted, m_i, merged_intervals, m_len, calcVars, readVars, mainVars>>

\* sum_nonoverlapping_interval_lengths, lib.rs line 37: the lengths of the
\* returned intervals are summed.
SumLengths ==
    /\ m_pc = "done"
    /\ m_len' = SumLens(merged_intervals)
    /\ m_pc' = "summed"
    /\ UNCHANGED <<m_input, m_sorted, m_i, merged_intervals, calcVars, readVars, mainVars>>

\* ------------------------------------------------------------------- f64
\* An f64 is an IEEE 754 binary64 value. A finite value is m * 2^e with m an
\* odd natural number below 2^53 (zero is m = 0, e = 0), so equal values are
\* equal records. TLC's integers are 32 bits wide, so m is kept as the
\* sequence of its digits in base 2^15, lowest first, without leading zeros.
\* Every operation computes the exact result and rounds it to 53 significant
\* bits, ties to even, as the hardware does. The values of the program lie
\* far inside the exponent range (they are quotients and products of a few
\* u64 values and of 1e6 and 1e9), so overflow to infinity and subnormal
\* results are not modelled; no negative value arises either. The two
\* non-finite outcomes of a division by zero are kept apart.
Radix == 2^15

\* f64::MANTISSA_DIGITS
MantissaDigits == 53

RECURSIVE BigOf(_)
BigOf(n) == IF n = 0 THEN <<>> ELSE <<n % Radix>> \o BigOf(n \div Radix)

RECURSIVE BTrim(_)
BTrim(a) ==
    IF Len(a) = 0 THEN <<>>
    ELSE IF a[Len(a)] = 0 THEN BTrim(SubSeq(a, 1, Len(a) - 1))
    ELSE a

Limb(a, i) == IF i >= 1 /\ i <= Len(a) THEN a[i] ELSE 0

\* -1, 0 or 1 as a is below, equal to or above b.
BCmp(a, b) ==
    IF Len(a) # Len(b) THEN (IF Len(a) < Len(b) THEN -1 ELSE 1)
    ELSE IF a = b THEN 0
    ELSE LET k == CHOOSE i \in 1..Len(a) :
                    a[i] # b[i] /\ \A j \in (i + 1)..Len(a) : a[j] = b[j]
         IN  IF a[k] < b[k] THEN -1 ELSE 1

RECURSIVE BAddC(_, _, _, _)
BAddC(a, b, i, carry) ==
    IF i > Len(a) /\ i > Len(b) THEN (IF carry = 0 THEN <<>> ELSE <<carry>>)
    ELSE LET x == Limb(a, i) + Limb(b, i) + carry
         IN  <<x % Radix>> \o BAddC(a, b, i + 1, x \div Radix)

BAdd(a, b) == BAddC(a, b, 1, 0)

\* a - b for a >= b
RECURSIVE BSubC(_, _, _, _)
BSubC(a, b, i, borrow) ==
    IF i > Len(a) THEN <<>>
    ELSE LET x == a[i] - Limb(b, i) - borrow
         IN  IF x < 0 THEN <<x + Radix>> \o BSubC(a, b, i + 1, 1)
             ELSE <<x>> \o BSubC(a, b, i + 1, 0)

BSub(a, b) == BTrim(BSubC(a, b, 1, 0))

\* a * k for a digit k
RECURSIVE BMulSmallC(_, _, _, _)
BMulSmallC(a, k, i, carry) ==
    IF i > Len(a) THEN (IF carry = 0 THEN <<>> ELSE <<carry>>)
    ELSE LET x == a[i] * k + carry
         IN  <<x % Radix>> \o BMulSmallC(a, k, i + 1, x \div Radix)

BMulSmall(a, k) == IF k = 0 THEN <<>> ELSE BMulSmallC(a, k, 1, 0)

RECURSIVE BMulFrom(_, _, _)
BMulFrom(a, b, j) ==
    IF j > Len(b) THEN <<>>
    ELSE BAdd(BMulSmall(a, b[j]), BTrim(<<0>> \o BMulFrom(a, b, j + 1)))

BMul(a, b) == BTrim(BMulFrom(a, b, 1))

\* a * 2^k
BShl(a, k) ==
    IF Len(a) = 0 THEN <<>>
    ELSE [i \in 1..(k \div 15) |-> 0] \o BMulSmall(a, 2^(k % 15))

\* floor(a / 2^k)
BShr(a, k) ==
    LET w == k \div 15
        s == k % 15
    IN  IF w >= Len(a) THEN <<>>
        ELSE BTrim([i \in 1..(Len(a) - w) |->
                        (a[i + w] \div 2^s) + (Limb(a, i + w + 1) % 2^s) * 2^(15 - s)])

\* The number of bits of a digit, and of a number.
RECURSIVE DigitBits(_)
DigitBits(x) == IF x = 0 THEN 0 ELSE 1 + DigitBits(x \div 2)

BitLen(a) == IF Len(a) = 0 THEN 0 ELSE 15 * (Len(a) - 1) + DigitBits(a[Len(a)])

\* The largest digit q with d * q <= r, from the estimate qhat >= q.
RECURSIVE QuotientDigit(_, _, _)
QuotientDigit(r, d, qhat) ==
    IF BCmp(BMulSmall(d, qhat), r) = 1 THEN QuotientDigit(r, d, qhat - 1) ELSE qhat

\* Long division of n by d, the digits of n from i downwards still to come:
\* r is the remainder so far (below d) and q the quotient so far.
RECURSIVE BDivLoop(_, _, _, _, _)
BDivLoop(n, d, i, r, q) ==
    IF i = 0 THEN [q |-> BTrim(q), r |-> r]
    ELSE LET r1 == BTrim(<<n[i]>> \o r)
             top == Limb(r1, Len(d) + 1) * Radix + Limb(r1, Len(d))
             est == top \div d[Len(d)]
             qd == QuotientDigit(r1, d, IF est >= Radix THEN Radix - 1 ELSE est)
         IN  BDivLoop(n, d, i - 1, BSub(r1, BMulSmall(d, qd)), <<qd>> \o q)

\* floor(n / d) and n mod d, for d > 0 whose highest digit has its top bit set
BDivMod(n, d) == BDivLoop(n, d, Len(n), <<>>, <<>>)

Fin(m, e) == [kind |-> "fin", m |-> m, e |-> e]
Zero == Fin(<<>>, 0)
Inf == [kind |-> "inf", m |-> <<>>, e |-> 0]
NaN == [kind |-> "nan", m |-> <<>>, e |-> 0]

\* The number of trailing zero bits of a digit x > 0.
RECURSIVE TrailingZeros(_)
TrailingZeros(x) == IF x % 2 = 1 THEN 0 ELSE 1 + TrailingZeros(x \div 2)

\* m * 2^e with the trailing zero bits of m moved into e.
RECURSIVE Normal(_, _)
Normal(m, e) ==
    IF Len(m) = 0 THEN Zero
    ELSE IF m[1] = 0 THEN Normal(Tail(m), e + 15)
    ELSE IF m[1] % 2 = 0 THEN Fin(BShr(m, TrailingZeros(m[1])), e + TrailingZeros(m[1]))
    ELSE Fin(m, e)

\* The f64 nearest to the real x, ties to even, where m * 2^e <= x and x is
\* m * 2^e exactly unless `inexact`, and then below (m + 1) * 2^e; m has
\* more than 53 bits whenever `inexact`.
Round(m, e, inexact) ==
    LET drop == BitLen(m) - MantissaDigits
    IN  IF drop <= 0 THEN Normal(m, e)
        ELSE LET m1 == BShr(m, drop - 1)
                 halfSet == m1[1] % 2 = 1
                 below == inexact \/ BShl(m1, drop - 1) # m
                 kept == BShr(m1, 1)
                 up == halfSet /\ (below \/ kept[1] % 2 = 1)
             IN  Normal(IF up THEN BAdd(kept, <<1>>) ELSE kept, e + drop)

\* `x as f64` for a u64 x
FromU64(x) == Round(BigOf(x), 0, FALSE)

\* The literals 1e9 (lib.rs:42) and 1e6 (lib.rs:71).
F1e9 == FromU64(1000000000)
F1e6 == FromU64(1000000)

\* a * b
FMul(a, b) ==
    IF a.kind = "nan" \/ b.kind = "nan" THEN NaN
    ELSE IF a.kind = "inf" \/ b.kind = "inf"
         THEN (IF a = Zero \/ b = Zero THEN NaN ELSE Inf)
    ELSE Round(BMul(a.m, b.m), a.e + b.e, FALSE)

\* a / b
FDiv(a, b) ==
    IF a.kind = "nan" \/ b.kind = "nan" THEN NaN
    ELSE IF a.kind = "inf" THEN (IF b.kind = "inf" THEN NaN ELSE Inf)
    ELSE IF b.kind = "inf" THEN Zero
    ELSE IF b = Zero THEN (IF a = Zero THEN NaN ELSE Inf)
    ELSE IF a = Zero THEN Zero
    ELSE LET sb == 15 - DigitBits(b.m[Len(b.m)])
             d == BShl(b.m, sb)
             want == BitLen(d) + MantissaDigits + 2 - BitLen(a.m)
             sa == IF want > 0 THEN want ELSE 0
             qr == BDivMod(BShl(a.m, sa), d)
         IN  Round(qr.q, a.e - sa - b.e + sb, Len(qr.r) # 0)

\* a + b
FAdd(a, b) ==
    IF a.kind = "nan" \/ b.kind = "nan" THEN NaN
    ELSE IF a.kind = "inf" \/ b.kind = "inf" THEN Inf
    ELSE IF a = Zero THEN b
    ELSE IF b = Zero THEN a
    ELSE LET e == IF a.e < b.e THEN a.e ELSE b.e
         IN  Round(BAdd(BShl(a.m, a.e - e), BShl(b.m, b.e - e)), e, FALSE)

\* ------------------------------------------------------------------ strings
\* A String is the sequence of its bytes. `a < b` of str: bytewise
\* lexicographic order, a proper prefix first.
StrLess(a, b) ==
    \E k \in 1..(Len(b)) :
        /\ \A j \in 1..(k - 1) : j <= Len(a) /\ a[j] = b[j]
        /\ k - 1 <= Len(a)
        /\ (k > Len(a) \/ a[k] < b[k])

\* ------------------------------------------------------------------- lib.rs
\* Expressions = BTreeMap<String, f64>: the entries <<key, value>> in the
\* order iteration yields them. BTreeMap::insert as collect() applies it.
BTreeInsertAppend(map, k, v) == Append(map, <<k, v>>)
BTreeInsert(map, k, v) ==
    IF \E i \in 1..Len(map) : map[i][1] = k
    THEN [i \in 1..Len(map) |-> IF map[i][1] = k THEN <<k, v>> ELSE map[i]]
    ELSE LET below == Cardinality({i \in 1..Len(map) : StrLess(map[i][1], k)})
         IN  SubSeq(map, 1, below) \o <<<<k, v>>>> \o SubSeq(map, below + 1, Len(map))

\* sum_counts (counts.rs:119): the sum of the values of a Counts map.
RECURSIVE SumOver(_, _)
SumOver(f, keys) ==
    IF keys = {} THEN 0
    ELSE LET k == CHOOSE x \in keys : TRUE IN f[k] + SumOver(f, keys \ {k})

sum_counts(c) == SumOver(c, DOMAIN c)

\* The orders a HashMap with the keys S can yield its entries in.
Orders(S) ==
    {o \in [1..Cardinality(S) -> S] : \A i, j \in 1..Cardinality(S) : o[i] = o[j] => i = j}

\* cpbs.values().sum(), the values being yielded in the order `order` of
\* their keys: an f64 sum starts from 0.0 and adds the values one by one.
RECURSIVE FSumOver(_, _)
FSumOverButOne(f, order) ==
    IF Len(order) = 0 THEN Zero ELSE FSumOver(f, Tail(order))
FSumOver(f, order) ==
    IF Len(order) = 0 THEN Zero
    ELSE FAdd(FSumOver(f, SubSeq(order, 1, Len(order) - 1)), f[order[Len(order)]])

\* calculate_fpkm (lib.rs:41-43)
calculate_fpkm_own_count(count, len, sum) ==
    FDiv(FMul(FromU64(count), F1e9), FMul(FromU64(len), FromU64(count)))
calculate_fpkm(count, len, sum) ==
    FDiv(FMul(FromU64(count), F1e9), FMul(FromU64(len), FromU64(sum)))

\* count as f64 / len as f64 (lib.rs:53)
calculate_cpb(count, len) == FDiv(FromU64(count), FromU64(len))

\* calculate_tpm (lib.rs:70-72)
calculate_tpm(cpb, sum) == FDiv(FMul(cpb, F1e6), sum)

Ok(expressions) == [tag |-> "Ok", expressions |-> expressions, missing |-> <<>>]
\* Err(Error::MissingFeature(name))
ErrMissingFeature(name) == [tag |-> "Err", expressions |-> <<>>, missing |-> name]
NoResult == [tag |-> "none", expressions |-> <<>>, missing |-> <<>>]

EmptyMap == [k \in {} |-> 0]

\* calculate_fpkms, lines 18-22: counts_sum is taken, the iteration starts.
CallFpkms ==
    /\ c_pc = "idle"
    /\ counts_sum' = sum_counts(counts)
    /\ c_todo' = DOMAIN counts
    /\ c_fn' = "fpkms"
    /\ c_pc' = "fpkms"
    /\ UNCHANGED <<counts, features, c_acc, c_order, cpbs, cpbs_order, cpbs_sum, c_result, mergeVars, readVars, mainVars>>

\* calculate_fpkms, lines 23-33: the iterator yields one (name, count), in the
\* HashMap's order; collect() stores the pair or stops at the first Err.
FpkmsNext ==
    /\ c_pc = "fpkms"
    /\ \E name \in c_todo :
        \/ /\ name \in DOMAIN features
           /\ LET len == sum_nonoverlapping_interval_lengths(features[name])
                  fpkm == calculate_fpkm(counts[name], len, counts_sum)
              IN  c_acc' = BTreeInsert(c_acc, name, fpkm)
           /\ c_order' = Append(c_order, name)
           /\ c_todo' = c_todo \ {name}
           /\ UNCHANGED <<c_pc, c_result>>
        \/ /\ name \notin DOMAIN features
           /\ c_result' = ErrMissingFeature(name)
           /\ c_acc' = <<>>
           /\ c_order' = <<>>
           /\ c_todo' = {}
           /\ c_pc' = "done"
    /\ UNCHANGED <<counts, features, c_fn, counts_sum, cpbs, cpbs_order, cpbs_sum, mergeVars, readVars, mainVars>>

\* calculate_fpkms, line 33: the iterator is exhausted, collect() returns Ok.
RECURSIVE WithZeros(_, _)
WithZeros(map, keys) ==
    IF keys = {} THEN map
    ELSE LET k == CHOOSE x \in keys : TRUE
         IN  WithZeros(BTreeInsert(map, k, Zero), keys \ {k})
FpkmsReturnEveryFeature ==
    /\ c_pc = "fpkms"
    /\ c_todo = {}
    /\ c_result' = Ok(WithZeros(c_acc, DOMAIN features \ DOMAIN counts))
    /\ c_pc' = "done"
    /\ UNCHANGED <<counts, features, c_fn, counts_sum, c_todo, c_acc, c_order, cpbs, cpbs_order, cpbs_sum, mergeVars, readVars, mainVars>>
FpkmsReturn ==
    /\ c_pc = "fpkms"
    /\ c_todo = {}
    /\ c_result' = Ok(c_acc)
    /\ c_pc' = "done"
    /\ UNCHANGED <<counts, features, c_fn, counts_sum, c_todo, c_acc, c_order, cpbs, cpbs_order, cpbs_sum, mergeVars, readVars, mainVars>>

\* calculate_tpms, lines 46-47: the first iteration over counts starts.
CallTpms ==
    /\ c_pc = "idle"
    /\ c_todo' = DOMAIN counts
    /\ c_fn' = "tpms"
    /\ c_pc' = "cpbs"
    /\ UNCHANGED <<counts, features, counts_sum, c_acc, c_order, cpbs, cpbs_order, cpbs_sum, c_result, mergeVars, readVars, mainVars>>

\* calculate_tpms, lines 48-58: one (name, count) of counts; the cpb is stored
\* in the HashMap, or `?` returns the first Err.
CpbsNextSkipMissing ==
    /\ c_pc = "cpbs"
    /\ \E name \in c_todo :
        \/ /\ name \in DOMAIN features
           /\ LET len == sum_nonoverlapping_interval_lengths(features[name])
                  cpb == calculate_cpb(counts[name], len)
              IN  cpbs' = [k \in DOMAIN cpbs \cup {name} |-> IF k = name THEN cpb ELSE cpbs[k]]
           /\ c_todo' = c_todo \ {name}
           /\ UNCHANGED <<c_pc, c_result>>
        \/ /\ name \notin DOMAIN features
           /\ c_todo' = c_todo \ {name}
           /\ UNCHANGED <<c_pc, c_result, cpbs>>
    /\ UNCHANGED <<counts, features, c_fn, counts_sum, c_acc, c_order, cpbs_order, cpbs_sum, mergeVars, readVars, mainVars>>
CpbsNext ==
    /\ c_pc = "cpbs"
    /\ \E name \in c_todo :
        \/ /\ name \in DOMAIN features
           /\ LET len == sum_nonoverlapping_interval_lengths(features[name])
                  cpb == calculate_cpb(counts[name], len)
              IN  cpbs' = [k \in DOMAIN cpbs \cup {name} |-> IF k = name THEN cpb ELSE cpbs[k]]
           /\ c_todo' = c_todo \ {name}
           /\ UNCHANGED <<c_pc, c_result>>
        \/ /\ name \notin DOMAIN features
           /\ c_result' = ErrMissingFeature(name)
           /\ cpbs' = EmptyMap
           /\ c_todo' = {}
           /\ c_pc' = "done"
    /\ UNCHANGED <<counts, features, c_fn, counts_sum, c_acc, c_order, cpbs_order, cpbs_sum, mergeVars, readVars, mainVars>>

\* calculate_tpms, lines 58-63: every cpb is known; their sum is taken over
\* cpbs.values(), in the order the HashMap yields them, and the iteration over
\* cpbs starts. The map is not changed in between, so both traversals yield
\* the same order.
CpbsSum ==
    /\ c_pc = "cpbs"
    /\ c_todo = {}
    /\ \E order \in Orders(DOMAIN cpbs) :
        /\ cpbs_order' = order
        /\ cpbs_sum' = FSumOver(cpbs, order)
    /\ c_todo' = DOMAIN cpbs
    /\ c_pc' = "tpms"
    /\ UNCHANGED <<counts, features, c_fn, counts_sum, c_acc, c_order, cpbs, c_result, mergeVars, readVars, mainVars>>

\* calculate_tpms, lines 62-65: one (name, cpb) of cpbs, in the HashMap's order.
TpmsNext ==
    /\ c_pc = "tpms"
    /\ c_todo # {}
    /\ LET name == cpbs_order[Len(c_order) + 1]
       IN  /\ c_acc' = BTreeInsert(c_acc, name, calculate_tpm(cpbs[name], cpbs_sum))
           /\ c_order' = Append(c_order, name)
           /\ c_todo' = c_todo \ {name}
    /\ UNCHANGED <<counts, features, c_fn, c_pc, counts_sum, cpbs, cpbs_order, cpbs_sum, c_result, mergeVars, readVars, mainVars>>

\* calculate_tpms, line 67
TpmsReturn ==
    /\ c_pc = "tpms"
    /\ c_todo = {}
    /\ c_result' = Ok(c_acc)
    /\ c_pc' = "done"
    /\ UNCHANGED <<counts, features, c_fn, counts_sum, c_todo, c_acc, c_order, cpbs, cpbs_order, cpbs_sum, mergeVars, readVars, mainVars>>

\* ---------------------------------------------------------------- counts.rs
\* str::starts_with
starts_with(str, prefix) ==
    /\ Len(prefix) <= Len(str)
    /\ SubSeq(str, 1, Len(prefix)) = prefix

\* The io::Result values of counts.rs.
OkCounts(c) == [tag |-> "Ok", counts |-> c, error |-> "none"]
ErrIo(what) == [tag |-> "Err", counts |-> EmptyMap, error |-> what]
NoCounts == [tag |-> "none", counts |-> EmptyMap, error |-> "none"]

\* The value of a string of ASCII digits.
RECURSIVE Decimal(_)
Decimal(ds) ==
    IF Len(ds) = 0 THEN 0
    ELSE 10 * Decimal(SubSeq(ds, 1, Len(ds) - 1)) + (ds[Len(ds)] - 48)

\* <u64 as FromStr>::from_str: an optional '+', then one or more digits.
parse_u64(str) ==
    LET digits == IF Len(str) > 0 /\ str[1] = 43 THEN Tail(str) ELSE str
    IN  IF Len(digits) = 0 \/ \E i \in 1..Len(digits) : digits[i] \notin 48..57
        THEN [ok |-> FALSE, value |-> 0]
        ELSE [ok |-> TRUE, value |-> Decimal(digits)]

\* parse_name (counts.rs:70-79) on a record of two columns.
parse_name(record) == record[NAME_INDEX + 1]

\* parse_count (counts.rs:81-90)
parse_count(record) == parse_u64(record[COUNT_INDEX + 1])

\* The body of the for loop of read_counts (lines 54-64) on the control state
\* st = [pc, counts, parsed, result] and record number i: the name, the "__"
\* test and its break, the count, insert_count (lines 92-102).
read_record_no_break(st, i, record) ==
    LET name == parse_name(record)
        count == parse_count(record)
    IN  IF starts_with(name, HTSEQ_COUNT_META_PREFIX)
        THEN st
        ELSE IF ~count.ok
             THEN [st EXCEPT !.pc = "done", !.parsed = @ \cup {i},
                             !.result = ErrIo("invalid count")]
        ELSE IF name \in DOMAIN st.counts
             THEN [st EXCEPT !.pc = "done", !.parsed = @ \cup {i},
                             !.result = ErrIo("duplicate identifier")]
        ELSE [st EXCEPT !.parsed = @ \cup {i},
                        !.counts = [k \in DOMAIN st.counts \cup {name} |->
                                        IF k = name THEN count.value ELSE st.counts[k]]]
read_record(st, i, record) ==
    LET name == parse_name(record)
        count == parse_count(record)
    IN  IF starts_with(name, HTSEQ_COUNT_META_PREFIX)
        THEN [st EXCEPT !.pc = "done", !.result = OkCounts(st.counts)]
        ELSE IF ~count.ok
             THEN [st EXCEPT !.pc = "done", !.parsed = @ \cup {i},
                             !.result = ErrIo("invalid count")]
        ELSE IF name \in DOMAIN st.counts
             THEN [st EXCEPT !.pc = "done", !.parsed = @ \cup {i},
                             !.result = ErrIo("duplicate identifier")]
        ELSE [st EXCEPT !.parsed = @ \cup {i},
                        !.counts = [k \in DOMAIN st.counts \cup {name} |->
                                        IF k = name THEN count.value ELSE st.counts[k]]]

\* read_counts, lines 53-65: the reader yields the next record and the loop
\* body runs on it.
ReadRecord ==
    /\ r_pc = "reading"
    /\ r_pos < Len(r_records)
    /\ LET st == read_record([pc |-> r_pc, counts |-> r_counts, parsed |-> r_parsed,
                              result |-> r_result], r_pos + 1, r_records[r_pos + 1])
       IN  /\ r_pc' = st.pc
           /\ r_counts' = st.counts
           /\ r_parsed' = st.parsed
           /\ r_result' = st.result
    /\ r_pos' = r_pos + 1
    /\ UNCHANGED <<r_records, mergeVars, calcVars, mainVars>>

\* read_counts, lines 53 and 67: the reader is at the end of the input.
ReadEof ==
    /\ r_pc = "reading"
    /\ r_pos = Len(r_records)
    /\ r_result' = OkCounts(r_counts)
    /\ r_pc' = "done"
    /\ UNCHANGED <<r_records, r_pos, r_counts, r_parsed, mergeVars, calcVars, mainVars>>

\* ------------------------------------------------------------------ main.rs
\* What calculate_fpkms and calculate_tpms can return on given arguments, as
\* sets: the collected map does not depend on the order the iterators yield
\* the keys in, but with several identifiers missing the one Err names does,
\* and so do the TPM values through the order cpbs_sum is added up in.
RECURSIVE collect_fpkms(_, _, _, _)
collect_fpkms(c, f, keys, sum) ==
    IF keys = {} THEN <<>>
    ELSE LET name == CHOOSE k \in keys : TRUE
             len == sum_nonoverlapping_interval_lengths(f[name])
         IN  BTreeInsert(collect_fpkms(c, f, keys \ {name}, sum), name,
                         calculate_fpkm(c[name], len, sum))

calculate_fpkms(c, f) ==
    IF DOMAIN c \subseteq DOMAIN f
    THEN {Ok(collect_fpkms(c, f, DOMAIN c, sum_counts(c)))}
    ELSE {ErrMissingFeature(name) : name \in DOMAIN c \ DOMAIN f}

RECURSIVE collect_tpms(_, _, _)
collect_tpms(cpb, keys, sum) ==
    IF keys = {} THEN <<>>
    ELSE LET name == CHOOSE k \in keys : TRUE
         IN  BTreeInsert(collect_tpms(cpb, keys \ {name}, sum), name,
                         calculate_tpm(cpb[name], sum))

\* calculate_tpms when no identifier is missing and cpbs yields its entries
\* in the order `order`.
calculate_tpms_in(c, f, order) ==
    LET cpb == [k \in DOMAIN c |->
                    calculate_cpb(c[k], sum_nonoverlapping_interval_lengths(f[k]))]
    IN  Ok(collect_tpms(cpb, DOMAIN c, FSumOver(cpb, order)))

calculate_tpms(c, f) ==
    IF DOMAIN c \subseteq DOMAIN f
    THEN {calculate_tpms_in(c, f, order) : order \in Orders(DOMAIN c)}
    ELSE {ErrMissingFeature(name) : name \in DOMAIN c \ DOMAIN f}

\* The options of main.rs lines 32-56 that take a value, with their defaults.
OptionDefaults ==
    [k \in {"feature-type", "feature-id", "method"} |->
        CASE k = "feature-type" -> "exon"
          [] k = "feature-id" -> "gene_id"
          [] k = "method" -> "fpkm"]

\* possible_values(&["fpkm", "tpm"]), line 55
MethodValues == {"fpkm", "tpm"}

\* App::get_matches (lines 24-71) on a command line that names the two
\* required arguments: the argument names clap holds a value for, and the
\* values. `verbose` is held only when the flag is given.
get_matches(argv) ==
    LET names == {"feature-type", "feature-id", "method", "annotations", "counts"}
                    \cup (IF argv.verbose THEN {"verbose"} ELSE {})
    IN  [k \in names |->
            IF k = "verbose" THEN ""
            ELSE IF k \in DOMAIN OptionDefaults /\ argv[k] = "omitted" THEN OptionDefaults[k]
            ELSE argv[k]]

\* ArgMatches::value_of: None for a name clap holds no value for.
value_of(matches, name) ==
    IF name \in DOMAIN matches
    THEN [some |-> TRUE, value |-> matches[name]]
    ELSE [some |-> FALSE, value |-> ""]

\* The name main looks the normalization method up under, line 85.
UnitArg == "unit"

\* main, lines 24-71: clap parses the command line; a method that is not a
\* possible value ends the process with a usage error.
MainGetMatches ==
    /\ x_pc = "start"
    /\ IF x_argv["method"] \in MethodValues \cup {"omitted"}
       THEN /\ x_matches' = get_matches(x_argv)
            /\ x_pc' = "matched"
       ELSE /\ x_matches' = x_matches
            /\ x_pc' = "usage error"
    /\ UNCHANGED <<x_argv, x_logger, x_called, x_output, mergeVars, calcVars, readVars>>

\* main, lines 73-79: the logger is initialised.
MainInitLogger ==
    /\ x_pc = "matched"
    /\ x_logger' = IF "verbose" \in DOMAIN x_matches THEN "info" ELSE "env"
    /\ x_pc' = "logging"
    /\ UNCHANGED <<x_argv, x_matches, x_called, x_output, mergeVars, calcVars, readVars>>

\* main, lines 81-100: the values are unwrapped, the inputs read (features
\* and counts are what read_features and read_counts return on them), the
\* calculator is chosen by `unit` and its result written. An unwrap of None
\* or of Err panics.
MainRun ==
    /\ x_pc = "logging"
    /\ LET counts_src == value_of(x_matches, "counts")
           annotations_src == value_of(x_matches, "annotations")
           feature_type == value_of(x_matches, "feature-type")
           feature_id == value_of(x_matches, "feature-id")
           unit == value_of(x_matches, UnitArg)
       IN  IF ~(counts_src.some /\ annotations_src.some /\ feature_type.some
                    /\ feature_id.some /\ unit.some)
           THEN /\ x_pc' = "panic"
                /\ UNCHANGED <<x_called, x_output>>
           ELSE /\ x_called' = IF unit.value = "fpkm" THEN "calculate_fpkms"
                                ELSE "calculate_tpms"
                /\ \E fpkms \in (IF unit.value = "fpkm"
                                  THEN calculate_fpkms(counts, features)
                                  ELSE calculate_tpms(counts, features)) :
                    IF fpkms.tag = "Ok"
                    THEN /\ x_output' = fpkms.expressions
                         /\ x_pc' = "written"
                    ELSE /\ x_output' = x_output
                         /\ x_pc' = "panic"
    /\ UNCHANGED <<x_argv, x_matches, x_logger, mergeVars, calcVars, readVars>>

\* ------------------------------------------------------------ specifications
\* The feature identifiers of the model: "A", "AB", "B".
Ids == {<<65>>, <<65, 66>>, <<66>>}

\* The interval lists a feature of the model may hold: one interval; two that
\* overlap, the later one first; one nested in another; two that abut.
CalcFeatureLists ==
    { <<Feature(1, 2)>>,
      <<Feature(3, 5), Feature(1, 3)>>,
      <<Feature(1, 3), Feature(2, 2)>>,
      <<Feature(1, 1), Feature(2, 2)>> }

\* The identifiers of the counts tables of the model: "A", "B", "_B", "__",
\* "__A".
Names == {<<65>>, <<66>>, <<95, 66>>, <<95, 95>>, <<95, 95, 65>>}

\* Their count cells: "12", "+3", "x" and the empty string.
Cells == {<<49, 50>>, <<43, 51>>, <<120>>, <<>>}

\* The maps from a subset of keys to values.
Maps(keys, values) == UNION {[d -> values] : d \in SUBSET keys}

MergeIdle ==
    /\ m_pc = "idle"
    /\ m_input = <<>>
    /\ m_sorted = <<>>
    /\ m_i = 0
    /\ merged_intervals = <<>>
    /\ m_len = 0

CalcIdle ==
    /\ counts = EmptyMap
    /\ features = EmptyMap
    /\ c_fn = "none"
    /\ c_pc = "off"
    /\ counts_sum = 0
    /\ c_todo = {}
    /\ c_acc = <<>>
    /\ c_order = <<>>
    /\ cpbs = EmptyMap
    /\ cpbs_order = <<>>
    /\ cpbs_sum = Zero
    /\ c_result = NoResult

MainIdle ==
    /\ x_pc = "off"
    /\ x_argv = EmptyMap
    /\ x_matches = EmptyMap
    /\ x_logger = "none"
    /\ x_called = "none"
    /\ x_output = <<>>

ReadIdle ==
    /\ r_pc = "off"
    /\ r_records = <<>>
    /\ r_pos = 0
    /\ r_counts = EmptyMap
    /\ r_parsed = {}
    /\ r_result = NoCounts

\* merge_intervals and sum_nonoverlapping_interval_lengths on every list.
InitMerge ==
    /\ m_pc = "start"
    /\ m_input \in IntervalLists(FeaturesUpTo(MaxPos), MaxLen) \cup {<<>>}
    /\ m_sorted = <<>>
    /\ m_i = 0
    /\ merged_intervals = <<>>
    /\ m_len = 0
    /\ CalcIdle
    /\ ReadIdle
    /\ MainIdle

NextMerge == MergeStart \/ MergeStep \/ MergeReturn \/ SumLengths

SpecMerge == InitMerge /\ [][NextMerge]_vars

\* read_counts on every table of at most MaxRecords records of two columns.
InitRead ==
    /\ MergeIdle
    /\ CalcIdle
    /\ MainIdle
    /\ r_pc = "reading"
    /\ r_records \in UNION {[1..k -> {<<n, c>> : n \in Names, c \in Cells}] : k \in 0..MaxRecords}
    /\ r_pos = 0
    /\ r_counts = EmptyMap
    /\ r_parsed = {}
    /\ r_result = NoCounts

NextRead == ReadRecord \/ ReadEof

SpecRead == InitRead /\ [][NextRead]_vars

\* calculate_fpkms and calculate_tpms on every pair of maps.
InitCalc ==
    /\ MergeIdle
    /\ ReadIdle
    /\ MainIdle
    /\ counts \in Maps(Ids, 0..MaxCount)
    /\ features \in Maps(Ids, CalcFeatureLists)
    /\ c_fn = "none"
    /\ c_pc = "idle"
    /\ counts_sum = 0
    /\ c_todo = {}
    /\ c_acc = <<>>
    /\ c_order = <<>>
    /\ cpbs = EmptyMap
    /\ cpbs_order = <<>>
    /\ cpbs_sum = Zero
    /\ c_result = NoResult

NextCalc ==
    \/ CallFpkms \/ FpkmsNext \/ FpkmsReturn
    \/ CallTpms \/ CpbsNext \/ CpbsSum \/ TpmsNext \/ TpmsReturn

SpecCalc == InitCalc /\ [][NextCalc]_vars

\* The command lines of the model: both required arguments are given; the
\* flag and each option are given or omitted, the method also with a value
\* that is not a possible one.
ArgVectors ==
    {[k \in {"verbose", "feature-type", "feature-id", "method"} |->
        CASE k = "verbose" -> v
          [] k = "feature-type" -> t
          [] k = "feature-id" -> i
          [] k = "method" -> m] @@ [k \in {"annotations", "counts"} |-> k]
     : v \in BOOLEAN, t \in {"omitted", "gene"}, i \in {"omitted", "gene_name"},
       m \in {"omitted", "fpkm", "tpm", "rpkm"}}

\* main on every command line and every pair of valid inputs: the inputs
\* parse, and every counted identifier is annotated.
InitMain ==
    /\ MergeIdle
    /\ ReadIdle
    /\ x_pc = "start"
    /\ x_argv \in ArgVectors
    /\ x_matches = EmptyMap
    /\ x_logger = "none"
    /\ x_called = "none"
    /\ x_output = <<>>
    /\ features \in [Ids -> CalcFeatureLists]
    /\ counts \in Maps(Ids, 0..MaxCount)
    /\ c_fn = "none"
    /\ c_pc = "off"
    /\ counts_sum = 0
    /\ c_todo = {}
    /\ c_acc = <<>>
    /\ c_order = <<>>
    /\ cpbs = EmptyMap
    /\ cpbs_order = <<>>
    /\ cpbs_sum = Zero
    /\ c_result = NoResult

NextMain == MainGetMatches \/ MainInitLogger \/ MainRun

SpecMain == InitMain /\ [][NextMain]_vars

\* ------------------------------------------------------------ merge: claims
\* The integer positions an interval list covers.
Cover(X) == UNION {X[i].start .. X[i].end : i \in 1..Len(X)}

\* The elements of the sorted list the sweep has accounted for so far: the
\* first one (pushed before the loop) and those the loop has consumed.
Swept == SubSeq(m_sorted, 1, IF m_i = 0 THEN 1 ELSE m_i)

\* C1: at every point of the sweep the result covers exactly the positions of
\* the intervals swept so far, and the returned list covers exactly the
\* positions of the input: nothing is lost (no end is shrunk), nothing added.
C1_MergeCoverage ==
    /\ m_pc = "loop" => Cover(merged_intervals) = Cover(Swept)
    /\ m_pc \in {"done", "summed"} => Cover(merged_intervals) = Cover(m_input)

\* A nested interval has been swept: the list is returned and some input
\* interval lies strictly inside another one that starts before it.
C1_Witness ==
    /\ m_pc = "done"
    /\ \E i, j \in 1..Len(m_input) :
        /\ m_input[i].start < m_input[j].start
        /\ m_input[j].end < m_input[i].end

\* C2: after every iteration of the sweep (and at the end) the result is
\* sorted by start and each interval starts after the end of the one before.
C2_MergeDisjointSorted ==
    m_pc \in {"loop", "done", "summed"} =>
        \A k \in 1..(Len(merged_intervals) - 1) :
            /\ merged_intervals[k].start < merged_intervals[k + 1].start
            /\ merged_intervals[k + 1].start > merged_intervals[k].end

\* Mid-sweep, with two intervals already in the result and input left.
C2_Witness ==
    /\ m_pc = "loop"
    /\ m_i > 0
    /\ m_i < Len(m_sorted)
    /\ Len(merged_intervals) >= 2

\* The number of positions of each interval of X, added up.
RECURSIVE IndividualLengths(_)
IndividualLengths(X) ==
    IF Len(X) = 0 THEN 0
    ELSE Cardinality(X[1].start .. X[1].end) + IndividualLengths(Tail(X))

PairwiseDisjoint(X) ==
    \A i, j \in 1..Len(X) : i # j => (X[i].start .. X[i].end) \cap (X[j].start .. X[j].end) = {}

\* C3: sum_nonoverlapping_interval_lengths returns the number of distinct
\* positions its argument covers, which for pairwise disjoint intervals is
\* the sum of their lengths.
C3_CoveredLength ==
    m_pc = "summed" =>
        /\ m_len = Cardinality(Cover(m_input))
        /\ PairwiseDisjoint(m_input) => m_len = IndividualLengths(m_input)

\* The sum of an input whose intervals overlap has been returned.
C3_Witness ==
    /\ m_pc = "summed"
    /\ ~PairwiseDisjoint(m_input)
    /\ m_len < IndividualLengths(m_input)
    /\ Len(merged_intervals) >= 2

\* C9, as claimed: consecutive intervals of the result neither overlap nor
\* are adjacent, b.start > a.end + 1.
C9_NoAdjacentOutputs ==
    m_pc = "done" =>
        \A k \in 1..(Len(merged_intervals) - 1) :
            merged_intervals[k + 1].start > merged_intervals[k].end + 1

\* C9, amended: no two intervals of the result share a position, whichever
\* two are taken, and each begins where an input interval begins and ends
\* where an input interval ends; intervals that only abut stay apart.
C9_PairwiseDisjointOutputs ==
    m_pc = "done" =>
        /\ \A i, j \in 1..Len(merged_intervals) :
            i < j => merged_intervals[j].start > merged_intervals[i].end
        /\ \A k \in 1..Len(merged_intervals) :
            /\ \E i \in 1..Len(m_input) : m_input[i].start = merged_intervals[k].start
            /\ \E i \in 1..Len(m_input) : m_input[i].end = merged_intervals[k].end

\* Two abutting intervals have been returned unmerged.
C9_Witness ==
    /\ m_pc = "done"
    /\ \E k \in 1..(Len(merged_intervals) - 1) :
        merged_intervals[k + 1].start = merged_intervals[k].end + 1

\* The result is the same whichever order the unstable sort leaves equal
\* starts in, so merge_intervals is a function of its argument.
MergeIsFunction ==
    m_pc \in {"done", "summed"} => merged_intervals = merge_intervals(m_input)

\* ------------------------------------------------------- calculators: claims
\* The identifiers of counts that features does not hold.
Missing == DOMAIN counts \ DOMAIN features

Returned == c_pc = "done"

\* C4: with a counted identifier missing from features both calculators
\* return Err(MissingFeature(id)) for such an id and no Expressions, and
\* calculate_tpms never reaches the computation of a TPM value; with none
\* missing both return Ok.
C4_MissingFeature ==
    /\ (Returned /\ Missing # {}) =>
        /\ c_result.tag = "Err"
        /\ c_result.missing \in Missing
        /\ c_result.expressions = <<>>
    /\ (Returned /\ Missing = {}) => c_result.tag = "Ok"
    /\ (c_fn = "tpms" /\ Missing # {}) => (c_pc # "tpms" /\ c_acc = <<>>)

\* calculate_tpms has returned on counts of which one identifier is missing
\* from features and another one is not.
C4_Witness ==
    /\ Returned
    /\ c_fn = "tpms"
    /\ Missing # {}
    /\ DOMAIN counts \cap DOMAIN features # {}

\* "A" < "AB" < "B"
IdOrder == <<<<65>>, <<65, 66>>, <<66>>>>

Rank(id) == CHOOSE i \in 1..Len(IdOrder) : IdOrder[i] = id

Increasing(map) ==
    \A i \in 1..(Len(map) - 1) : Rank(map[i][1]) < Rank(map[i + 1][1])

\* C5: the Expressions under collection, and the Expressions returned, yield
\* their identifiers in strictly increasing lexicographic order.
C5_OutputOrdered ==
    /\ Increasing(c_acc)
    /\ (Returned /\ c_result.tag = "Ok") => Increasing(c_result.expressions)

\* Ok was returned with all three identifiers, which the map iterator had
\* yielded in the order "B", "A", "AB".
C5_Witness ==
    /\ Returned
    /\ c_result.tag = "Ok"
    /\ c_order = <<IdOrder[3], IdOrder[1], IdOrder[2]>>

\* The sum of all counts, identifier by identifier.
TotalCount ==
    LET c(i) == IF IdOrder[i] \in DOMAIN counts THEN counts[IdOrder[i]] ELSE 0
    IN  c(1) + c(2) + c(3)

\* The number of positions the intervals of a feature cover.
CoveredLength(id) == Cardinality(Cover(features[id]))

\* C6: every value calculate_fpkms returns is count * 1e9 / (len * total),
\* total being the sum of all counts; it is 0 for a zero count when the total
\* is positive.
C6_FpkmFormula ==
    (Returned /\ c_fn = "fpkms" /\ c_result.tag = "Ok") =>
        \A i \in 1..Len(c_result.expressions) :
            LET id == c_result.expressions[i][1]
                v == c_result.expressions[i][2]
            IN  /\ id \in DOMAIN counts
                /\ v = FDiv(FMul(FromU64(counts[id]), F1e9),
                            FMul(FromU64(CoveredLength(id)), FromU64(TotalCount)))
                /\ (counts[id] = 0 /\ TotalCount > 0) => v = Zero

\* FPKMs were returned for a zero count and two different positive counts, one
\* of them of a feature whose intervals overlap.
C6_Witness ==
    /\ Returned
    /\ c_fn = "fpkms"
    /\ c_result.tag = "Ok"
    /\ \E a, b, c \in DOMAIN counts :
        /\ counts[a] = 0
        /\ 0 < counts[b]
        /\ counts[b] < counts[c]
        /\ ~PairwiseDisjoint(features[c])

\* The product of the covered lengths of the counted features but one.
RECURSIVE LengthProduct(_)
LengthProduct(ids) ==
    IF ids = {} THEN 1
    ELSE LET k == CHOOSE x \in ids : TRUE
         IN  CoveredLength(k) * LengthProduct(ids \ {k})

\* counts[id] / len(id), times the product of all the lengths: an integer.
Weight(id) == counts[id] * LengthProduct(DOMAIN counts \ {id})

RECURSIVE TotalWeight(_)
TotalWeight(ids) ==
    IF ids = {} THEN 0
    ELSE LET k == CHOOSE x \in ids : TRUE IN Weight(k) + TotalWeight(ids \ {k})

\* counts[id] / len(id) in f64
Cpb(id) == FDiv(FromU64(counts[id]), FromU64(CoveredLength(id)))

\* The f64 sum of the cpb of the identifiers of `order`, added in that order.
RECURSIVE CpbSum(_, _)
CpbSum(order, n) == IF n = 0 THEN Zero ELSE FAdd(CpbSum(order, n - 1), Cpb(order[n]))

\* The f64 sum of the values of an Expressions map, in the order iteration
\* yields them.
RECURSIVE SumOfValues(_, _)
SumOfValues(map, n) == IF n = 0 THEN Zero ELSE FAdd(SumOfValues(map, n - 1), map[n][2])

\* Every value calculate_tpms returned is cpb * 1e6 / cpb_sum in f64, cpb_sum
\* being the cpbs of all counted identifiers added in the order the cpbs map
\* yielded them.
TpmValues ==
    /\ Len(cpbs_order) = Cardinality(DOMAIN counts)
    /\ {cpbs_order[i] : i \in 1..Len(cpbs_order)} = DOMAIN counts
    /\ LET cpb_sum == CpbSum(cpbs_order, Len(cpbs_order))
       IN  \A i \in 1..Len(c_result.expressions) :
            LET id == c_result.expressions[i][1]
                v == c_result.expressions[i][2]
            IN  /\ id \in DOMAIN counts
                /\ v = FDiv(FMul(Cpb(id), F1e6), cpb_sum)

\* C7 as stated: cpbs_sum is taken when cpbs holds the cpb of every counted
\* identifier; every value calculate_tpms returns is cpb * 1e6 / cpb_sum, cpb
\* being count / len and cpb_sum the sum of all of them; when that sum is
\* positive the values add up to one million.
C7_TpmFormula ==
    /\ c_pc = "tpms" => DOMAIN cpbs = DOMAIN counts
    /\ (Returned /\ c_fn = "tpms" /\ c_result.tag = "Ok") =>
        /\ TpmValues
        /\ TotalWeight(DOMAIN counts) > 0 =>
            SumOfValues(c_result.expressions, Len(c_result.expressions)) = F1e6

\* a <= b for finite values
FLeq(a, b) ==
    IF a = Zero THEN TRUE
    ELSE IF b = Zero THEN FALSE
    ELSE LET e == IF a.e < b.e THEN a.e ELSE b.e
         IN  BCmp(BShl(a.m, a.e - e), BShl(b.m, b.e - e)) <= 0

\* One million less and plus 2^-20.
NearMillionLow == Fin(BSub(BShl(BigOf(1000000), 20), <<1>>), -20)
NearMillionHigh == Fin(BAdd(BShl(BigOf(1000000), 20), <<1>>), -20)

\* C7, amended: cpbs_sum is taken when cpbs holds the cpb of every counted
\* identifier; every value calculate_tpms returns is the f64 value of
\* cpb * 1e6 / cpb_sum; when cpb_sum is positive the values add up to one
\* million up to the rounding of the f64 operations (here within 2^-20).
C7_TpmFormulaRounded ==
    /\ c_pc = "tpms" => DOMAIN cpbs = DOMAIN counts
    /\ (Returned /\ c_fn = "tpms" /\ c_result.tag = "Ok") =>
        /\ TpmValues
        /\ TotalWeight(DOMAIN counts) > 0 =>
            LET total == SumOfValues(c_result.expressions, Len(c_result.expressions))
            IN  /\ total.kind = "fin"
                /\ FLeq(NearMillionLow, total)
                /\ FLeq(total, NearMillionHigh)

\* TPMs were returned for three features of which two have different
\* positive counts per base.
C7_Witness ==
    /\ Returned
    /\ c_fn = "tpms"
    /\ c_result.tag = "Ok"
    /\ Len(c_result.expressions) = Len(IdOrder)
    /\ \E a, b \in DOMAIN counts :
        /\ 0 < Weight(a)
        /\ Weight(a) < Weight(b)
        /\ CoveredLength(a) # CoveredLength(b)
    /\ SumOfValues(c_result.expressions, Len(c_result.expressions)) # F1e6

Restrict(f, keys) == [k \in DOMAIN f \cap keys |-> f[k]]

\* C10: the returned Expressions hold exactly the identifiers of counts, each
\* once, and are what the calculator returns on features without the
\* identifiers counts does not hold.
C10_KeysOfCounts ==
    (Returned /\ c_result.tag = "Ok") =>
        /\ {c_result.expressions[i][1] : i \in 1..Len(c_result.expressions)} = DOMAIN counts
        /\ Len(c_result.expressions) = Cardinality(DOMAIN counts)
        /\ IF c_fn = "fpkms"
           THEN c_result \in calculate_fpkms(counts, Restrict(features, DOMAIN counts))
           ELSE c_result = calculate_tpms_in(counts, Restrict(features, DOMAIN counts), cpbs_order)

\* A calculator has returned Ok although features holds an identifier that
\* counts does not.
C10_Witness ==
    /\ Returned
    /\ c_result.tag = "Ok"
    /\ DOMAIN counts # {}
    /\ DOMAIN features \ DOMAIN counts # {}

\* ------------------------------------------------------- read_counts: claims
\* The first record whose identifier starts with "__", or one past the last.
StopIndex ==
    LET meta == {i \in 1..Len(r_records) :
                    r_records[i][1][1] = 95 /\ Len(r_records[i][1]) >= 2 /\ r_records[i][1][2] = 95}
    IN  IF meta = {} THEN Len(r_records) + 1
        ELSE CHOOSE i \in meta : \A j \in meta : i <= j

\* The count a cell of the model reads as: "12" is 12, "+3" is 3.
CellCount(cell) ==
    CASE cell = <<49, 50>> -> 12
      [] cell = <<43, 51>> -> 3
      [] OTHER -> -1

\* The records before the stop have parsable counts and distinct identifiers.
CleanPrefix ==
    /\ \A i \in 1..(StopIndex - 1) : CellCount(r_records[i][2]) >= 0
    /\ \A i, j \in 1..(StopIndex - 1) : r_records[i][1] = r_records[j][1] => i = j

\* C8: read_counts takes the records in order and no record past the first
\* "__" one; it parses the count of no record from that one on; when the
\* records before it are clean it returns Ok with exactly their pairs.
C8_StopsAtMeta ==
    /\ r_pos <= StopIndex
    /\ r_pos <= Len(r_records)
    /\ r_parsed \subseteq 1..(StopIndex - 1)
    /\ r_pc = "reading" => (r_parsed = 1..r_pos /\ r_pos < StopIndex)
    /\ (r_pc = "done" /\ CleanPrefix) =>
        /\ r_result.tag = "Ok"
        /\ DOMAIN r_result.counts = {r_records[i][1] : i \in 1..(StopIndex - 1)}
        /\ \A i \in 1..(StopIndex - 1) :
            r_result.counts[r_records[i][1]] = CellCount(r_records[i][2])

\* read_counts has returned Ok at a "__" record that has an unparsable count
\* and is followed by a record repeating an identifier already stored.
C8_Witness ==
    /\ r_pc = "done"
    /\ r_result.tag = "Ok"
    /\ StopIndex > 1
    /\ StopIndex < Len(r_records)
    /\ CellCount(r_records[StopIndex][2]) < 0
    /\ \E j \in (StopIndex + 1)..Len(r_records) : r_records[j][1] = r_records[1][1]

\* ---------------------------------------------------------------- main: claims
\* The method the command line asks for: "fpkm" when the option is omitted.
AskedMethod == IF x_argv["method"] = "omitted" THEN "fpkm" ELSE x_argv["method"]

\* C11: on a command line with a valid method and valid inputs main does not
\* panic, and once it has chosen a calculator it has called calculate_fpkms
\* for the method "fpkm" (also the default) and calculate_tpms for "tpm", and
\* has reached write_expressions.
C11_MainSelectsCalculator ==
    x_argv["method"] \in MethodValues \cup {"omitted"} =>
        /\ x_pc # "panic"
        /\ x_pc \notin {"start", "matched", "logging"} =>
            /\ x_pc = "written"
            /\ x_called = (IF AskedMethod = "fpkm" THEN "calculate_fpkms" ELSE "calculate_tpms")
====
